---- MODULE Spec2Model ----
(***************************************************************************)
(* Model of the SSO broker: the Auth Backend (service_a_backend.py) and    *)
(* the two Relay variants (sso_agent.py, mcp_sso_server.py).               *)
(*                                                                         *)
(* Conventions.  A Python str that the code only compares is a TLA+        *)
(* string.  A str that the code builds by concatenation or decodes is a    *)
(* sequence of pieces: an error message "connection_error: " + str(e) is   *)
(* <<"connection_error: ", "...">>, a token is the sequence of its         *)
(* dot-separated segments, the empty str is <<>>.  A Python dict is a      *)
(* function whose DOMAIN is the set of its keys.                           *)
(***************************************************************************)
EXTENDS Integers, Sequences, FiniteSets, TLC

\* ------------------------------------------------------------------ bounds
MaxNonces == 2
MaxLogouts == 2

\* ------------------------------------------------------------ value spaces
None == "<None>"
Truthy(s) == s # None /\ s # ""

Nonces == {"n" \o ToString(i) : i \in 1..MaxNonces}

Callers == {"A", "B"}
Variants == {"sso_agent", "mcp_sso_server"}

\* payloads (claims) of the identity tokens the provider issues
ClaimsFull == [c \in {"sub", "email", "name"} |->
                 CASE c = "sub" -> "u1" [] c = "email" -> "u1@x" [] OTHER -> "User One"]
ClaimsFallback == [c \in {"oid", "upn"} |->
                 CASE c = "oid" -> "o2" [] OTHER -> "u2@upn"]
Jwt(claims) == <<"hdr", claims, "sig">>
ProviderTokens == {Jwt(ClaimsFull), Jwt(ClaimsFallback)}
\* cookie values a client can present: issued tokens, "", an undecodable str
CookieValues == ProviderTokens \cup {<<>>, <<"garbage">>}

EmptyDict == [k \in {} |-> <<>>]

\* ----------------------------------------------------------- HTTP messages
\* A response: status, Location header, cookies it sets (name -> value),
\* cookie names it expires, and its body.  A body is a JSON object (obj),
\* some other JSON value, or text that is not JSON.
JsonObject(o) == [json |-> "object", obj |-> o, text |-> ""]
JsonArray == [json |-> "array", obj |-> EmptyDict, text |-> ""]
NotJson(t) == [json |-> "none", obj |-> EmptyDict, text |-> t]
Str(s) == <<s>>
HasKey(body, k) == body.json = "object" /\ k \in DOMAIN body.obj

Response(st, loc, cookies, expired, body) ==
    [status |-> st, location |-> loc, cookies |-> cookies,
     expired |-> expired, body |-> body]
NoResponse == Response(0, <<>>, EmptyDict, {}, NotJson(""))

\* httpx.Response.is_redirect
is_redirect(resp) == resp.status \in {301, 302, 303, 307, 308} /\ resp.location # <<>>

\* fastapi.responses.RedirectResponse (default status 307)
RedirectResponse(url) == Response(307, url, EmptyDict, {}, NotJson(""))
\* fastapi.HTTPException rendered by the default handler
HTTPException(st, detail) ==
    Response(st, <<>>, EmptyDict, {}, JsonObject([k \in {"detail"} |-> detail]))
JSONResponse(st, o) == Response(st, <<>>, EmptyDict, {}, JsonObject(o))
set_cookie(resp, key, value) ==
    [resp EXCEPT !.cookies = [k \in DOMAIN resp.cookies \cup {key} |->
                                IF k = key THEN value ELSE resp.cookies[k]]]
delete_cookie(resp, key) == [resp EXCEPT !.expired = resp.expired \cup {key}]

\* ------------------------------------------------------------ Auth Backend
\* os.getenv("COOKIE_NAME", "sso_session")
DefaultCookieName == "sso_session"
CookieNames == {DefaultCookieName, "app_session"}

\* msal get_authorization_request_url(..., state=state)
get_authorization_request_url(state) ==
    <<"https://login.microsoftonline.com/authorize?state=", state>>

\* msal acquire_token_by_authorization_code: the provider's possible answers
ExchangeResults ==
    {[id_token |-> t] : t \in ProviderTokens} \cup {[error |-> "invalid_grant"]}

\* what one backend request did: the pending set afterwards, whether the
\* state check passed, the provider's answer if it was asked, the response
NotAsked == [error |-> "<not asked>"]
Served(ss, valid, provider, resp) ==
    [session_states |-> ss, validated |-> valid, provider |-> provider,
     served |-> TRUE, resp |-> resp]
Unserved(ss) ==
    [session_states |-> ss, validated |-> FALSE, provider |-> NotAsked,
     served |-> FALSE, resp |-> NoResponse]

\* mutation: the state is put in the URL but not recorded
auth_login_unrecorded(ss, state) ==
    Served(ss, FALSE, NotAsked,
           RedirectResponse(get_authorization_request_url(state)))

\* GET /auth/login; state is the value secrets.token_urlsafe(32) returned
auth_login(ss, state) ==
    Served(ss \cup {state}, FALSE, NotAsked,
           RedirectResponse(get_authorization_request_url(state)))

\* mutation: the state check accepts any non-empty state
state_valid_any(ss, state) == Truthy(state)

\* the state check of GET /auth/callback
state_valid(ss, state) == Truthy(state) /\ state \in ss

\* mutation: a validated state is left in the pending set
auth_callback_no_pop(ss, cookie_name, code, state, result) ==
    IF ~Truthy(code)
    THEN Served(ss, FALSE, NotAsked, HTTPException(400, "Missing code"))
    ELSE IF "id_token" \notin DOMAIN result
         THEN Served(ss, state_valid(ss, state), result,
                     HTTPException(401, "Failed to authenticate"))
         ELSE Served(ss, state_valid(ss, state), result,
                     set_cookie(RedirectResponse(Str("/post-login")),
                                cookie_name, result.id_token))

\* mutation: the state is validated before the code is checked
auth_callback_state_first(ss, cookie_name, code, state, result) ==
    LET valid == state_valid(ss, state)
        ss2 == IF valid THEN ss \ {state} ELSE ss
    IN  IF ~Truthy(code)
        THEN Served(ss2, valid, NotAsked, HTTPException(400, "Missing code"))
        ELSE IF "id_token" \notin DOMAIN result
        THEN Served(ss2, valid, result, HTTPException(401, "Failed to authenticate"))
        ELSE Served(ss2, valid, result,
                    set_cookie(RedirectResponse(Str("/post-login")),
                               cookie_name, result.id_token))

\* mutation: a failed exchange still redirects to the post-login page
auth_callback_redirects_anyway(ss, cookie_name, code, state, result) ==
    IF ~Truthy(code)
    THEN Served(ss, FALSE, NotAsked, HTTPException(400, "Missing code"))
    ELSE LET valid == state_valid(ss, state)
             ss2 == IF valid THEN ss \ {state} ELSE ss
         IN  IF "id_token" \notin DOMAIN result
             THEN Served(ss2, valid, result, RedirectResponse(Str("/post-login")))
             ELSE Served(ss2, valid, result,
                         set_cookie(RedirectResponse(Str("/post-login")),
                                    cookie_name, result.id_token))

\* mutation: a callback whose state is not pending is rejected
auth_callback_strict(ss, cookie_name, code, state, result) ==
    IF ~Truthy(code)
    THEN Served(ss, FALSE, NotAsked, HTTPException(400, "Missing code"))
    ELSE IF ~state_valid(ss, state)
    THEN Served(ss, FALSE, NotAsked, HTTPException(400, "Invalid state"))
    ELSE IF "id_token" \notin DOMAIN result
    THEN Served(ss \ {state}, TRUE, result, HTTPException(401, "Failed to authenticate"))
    ELSE Served(ss \ {state}, TRUE, result,
                set_cookie(RedirectResponse(Str("/post-login")),
                           cookie_name, result.id_token))

\* mutation: the state is removed only once the exchange has succeeded
auth_callback_pop_on_success(ss, cookie_name, code, state, result) ==
    IF ~Truthy(code)
    THEN Served(ss, FALSE, NotAsked, HTTPException(400, "Missing code"))
    ELSE LET valid == state_valid(ss, state)
         IN  IF "id_token" \notin DOMAIN result
             THEN Served(ss, valid, result, HTTPException(401, "Failed to authenticate"))
             ELSE Served(IF valid THEN ss \ {state} ELSE ss, valid, result,
                         set_cookie(RedirectResponse(Str("/post-login")),
                                    cookie_name, result.id_token))

\* GET /auth/callback
auth_callback(ss, cookie_name, code, state, result) ==
    IF ~Truthy(code)
    THEN Served(ss, FALSE, NotAsked, HTTPException(400, "Missing code"))
    ELSE LET valid == state_valid(ss, state)
             ss2 == IF valid THEN ss \ {state} ELSE ss
         IN  IF "id_token" \notin DOMAIN result
             THEN Served(ss2, valid, result, HTTPException(401, "Failed to authenticate"))
             ELSE Served(ss2, valid, result,
                         set_cookie(RedirectResponse(Str("/post-login")),
                                    cookie_name, result.id_token))

\* jwt.decode(token, options={"verify_signature": False})
jwt_decodable(token) == Len(token) = 3
jwt_decode(token) == token[2]

\* dict.get(key, default)
Get(d, k, default) == IF k \in DOMAIN d THEN d[k] ELSE default

\* mutation: upn is preferred to preferred_username
user_info_upn_first(decoded) ==
    [k \in {"sub", "email", "name"} |->
        CASE k = "sub" -> Get(decoded, "sub", Get(decoded, "oid", None))
          [] k = "email" -> Get(decoded, "email",
                                Get(decoded, "upn",
                                    Get(decoded, "preferred_username", None)))
          [] OTHER -> Get(decoded, "name", "Unknown User")]

\* the user_info dict auth_me builds from the decoded claims
user_info(decoded) ==
    [k \in {"sub", "email", "name"} |->
        CASE k = "sub" -> Get(decoded, "sub", Get(decoded, "oid", None))
          [] k = "email" -> Get(decoded, "email",
                                Get(decoded, "preferred_username",
                                    Get(decoded, "upn", None)))
          [] OTHER -> Get(decoded, "name", "Unknown User")]

\* the cookie that the parameter `sso_session: Optional[str] = Cookie(None)` reads
MeCookieParam == "sso_session"

\* mutation: an undecodable token is reported like a missing cookie
auth_me_no_invalid(cookies) ==
    IF MeCookieParam \notin DOMAIN cookies \/ ~jwt_decodable(cookies[MeCookieParam])
    THEN JSONResponse(401, [k \in {"error"} |-> Str("unauthenticated")])
    ELSE JSONResponse(200,
             [k \in {"user"} |-> user_info(jwt_decode(cookies[MeCookieParam]))])

\* GET /auth/me
auth_me(cookies) ==
    IF MeCookieParam \notin DOMAIN cookies \/ cookies[MeCookieParam] = <<>>
    THEN JSONResponse(401, [k \in {"error"} |-> Str("unauthenticated")])
    ELSE IF jwt_decodable(cookies[MeCookieParam])
         THEN JSONResponse(200,
                  [k \in {"user"} |-> user_info(jwt_decode(cookies[MeCookieParam]))])
         ELSE JSONResponse(401, [k \in {"error"} |-> Str("invalid_token")])

\* mutation: logout forgets to expire the cookie
auth_logout_no_clear(cookie_name) == JSONResponse(200, [k \in {"status"} |-> "ok"])

\* POST /auth/logout
auth_logout(cookie_name) ==
    delete_cookie(JSONResponse(200, [k \in {"status"} |-> "ok"]), cookie_name)

\* GET /health
health == JSONResponse(200, [k \in {"status"} |-> "ok"])

\* ------------------------------------------------- the relay's internal link
\* Answers that reach a relay without coming from a backend handler: a
\* gateway error page, a redirect issued in front of the backend (it
\* carries no cookie), a body that is JSON but not an object.
GatewayResponses ==
    {Response(502, <<>>, EmptyDict, {}, NotJson("Bad Gateway")),
     Response(301, Str("https://backend/"), EmptyDict, {}, NotJson("")),
     Response(200, <<>>, EmptyDict, {}, JsonArray)}

\* Outcomes of one internal call whose backend handler would produce one of
\* the results in B: the handler's response, a gateway's response, or an
\* httpx exception raised before the request reached the backend.
Reply(b) == [kind |-> "response", resp |-> b.resp, backend |-> b]
Raise(kind, b) == [kind |-> kind, resp |-> NoResponse, backend |-> b]
Calls(ss, B) ==
    {Reply(b) : b \in B}
      \cup {Reply([Unserved(ss) EXCEPT !.resp = r]) : r \in GatewayResponses}
      \cup {Raise(k, Unserved(ss)) : k \in {"ConnectError", "TimeoutException", "Exception"}}

\* str(e) of the exception the call raised
str(link) == link.kind
ErrorBody(msg) == JsonObject([k \in {"error"} |-> msg])

\* ------------------------------------------------------ Relay: sso_agent.py
\* mutation: the request URL is returned instead of the Location header
handle_sso_login_url(link) ==
    IF link.kind # "response"
    THEN ErrorBody(<<"connection_error: ", str(link)>>)
    ELSE IF is_redirect(link.resp)
         THEN JsonObject([k \in {"auth_url"} |-> <<"http://localhost:8000/auth/login">>])
         ELSE ErrorBody(<<"backend_error: ", link.resp.body.text>>)

handle_sso_login(link) ==
    CASE link.kind = "ConnectError" ->
           ErrorBody(<<"connection_error: ", "Cannot reach backend. Is service_a_backend.py running on port 8000?">>)
      [] link.kind = "TimeoutException" ->
           ErrorBody(<<"connection_error: ", "Backend timeout">>)
      [] link.kind = "Exception" ->
           ErrorBody(<<"connection_error: ", str(link)>>)
      [] OTHER ->
           IF is_redirect(link.resp)
           THEN JsonObject([k \in {"auth_url"} |-> link.resp.location])
           ELSE IF link.resp.body.json = "none"
                THEN ErrorBody(<<"backend_error: ", link.resp.body.text>>)
                ELSE ErrorBody(<<"backend_error: ", "json_data">>)

\* mutation: the response's cookies are never stored
store_cookies_never(jar, resp) == jar

\* mutation: the jar is replaced by the response's cookies unconditionally
store_cookies_always(jar, resp) == resp.cookies

\* the jar after `if resp.cookies: clear(); update(resp.cookies)`
store_cookies(jar, resp) == IF DOMAIN resp.cookies # {} THEN resp.cookies ELSE jar

handle_sso_callback(jar, code, state, link) ==
    CASE link.kind = "ConnectError" ->
           [jar |-> jar, result |-> ErrorBody(<<"connection_error: ", "Cannot reach backend">>)]
      [] link.kind \in {"TimeoutException", "Exception"} ->
           [jar |-> jar, result |-> ErrorBody(<<"connection_error: ", str(link)>>)]
      [] OTHER ->
           [jar |-> store_cookies(jar, link.resp),
            result |-> IF is_redirect(link.resp)
                       THEN JsonObject([k \in {"status"} |-> "OK"])
                       ELSE IF link.resp.body.json = "none"
                            THEN ErrorBody(<<"callback failed: ", link.resp.body.text>>)
                            ELSE link.resp.body]

handle_sso_me(link) ==
    CASE link.kind = "ConnectError" ->
           ErrorBody(<<"connection_error: ", "Cannot reach backend">>)
      [] link.kind \in {"TimeoutException", "Exception"} ->
           ErrorBody(<<"me failed: ", str(link)>>)
      [] OTHER ->
           IF link.resp.body.json = "none"
           THEN ErrorBody(<<"me failed: ", "JSONDecodeError">>)
           ELSE IF link.resp.status = 200 /\ link.resp.body.json # "object"
                THEN ErrorBody(<<"me failed: ", "AttributeError">>)
                ELSE link.resp.body

handle_sso_logout(jar, link) ==
    CASE link.kind = "ConnectError" ->
           [jar |-> EmptyDict,
            result |-> ErrorBody(<<"connection_error: ", "Cannot reach backend (session cleared locally)">>)]
      [] link.kind \in {"TimeoutException", "Exception"} ->
           [jar |-> EmptyDict, result |-> ErrorBody(<<"connection_error: ", str(link)>>)]
      [] OTHER ->
           [jar |-> EmptyDict,
            result |-> IF link.resp.body.json = "none"
                       THEN JsonObject([k \in {"status"} |-> "ok"])
                       ELSE link.resp.body]

\* ------------------------------------------------- Relay: mcp_sso_server.py
sso_login(link) ==
    IF link.kind # "response"
    THEN ErrorBody(<<"connection_error: ", str(link)>>)
    ELSE IF is_redirect(link.resp)
         THEN JsonObject([k \in {"auth_url"} |-> link.resp.location])
         ELSE IF link.resp.body.json = "none"
              THEN ErrorBody(<<"login failed">>)
              ELSE link.resp.body

sso_callback(jar, code, state, link) ==
    IF link.kind # "response"
    THEN [jar |-> jar, result |-> ErrorBody(<<"connection_error: ", str(link)>>)]
    ELSE [jar |-> store_cookies(jar, link.resp),
          result |-> IF is_redirect(link.resp)
                     THEN JsonObject([k \in {"status"} |-> "OK"])
                     ELSE IF link.resp.body.json = "none"
                          THEN ErrorBody(<<"callback failed">>)
                          ELSE link.resp.body]

sso_me(link) ==
    IF link.kind # "response"
    THEN ErrorBody(<<"me failed: ", str(link)>>)
    ELSE IF link.resp.body.json = "none"
         THEN ErrorBody(<<"me failed: ", "JSONDecodeError">>)
         ELSE IF link.resp.status = 200 /\ link.resp.body.json # "object"
              THEN ErrorBody(<<"me failed: ", "AttributeError">>)
              ELSE link.resp.body

sso_logout(jar, link) ==
    IF link.kind # "response"
    THEN [jar |-> jar, result |-> ErrorBody(<<"connection_error: ", str(link)>>)]
    ELSE [jar |-> EmptyDict,
          result |-> IF link.resp.body.json = "none"
                     THEN ErrorBody(<<"logout failed">>)
                     ELSE link.resp.body]

\* ------------------------------------------------ Relay: the HTTP endpoints
RelayResponse(st, body) == [status |-> st, body |-> body, raised |-> FALSE]
\* an exception that escapes the endpoint
Unhandled == [status |-> 500, body |-> NotJson("Internal Server Error"), raised |-> TRUE]
NoRelay == [status |-> 0, body |-> NotJson(""), raised |-> FALSE]
NoCall == Raise("NoCall", Unserved({}))

\* a request body of POST /sso_callback: what request.json() yields and what
\* body.get("code"), body.get("state") return for an object
CallbackRequest(json, code, state) == [json |-> json, code |-> code, state |-> state]

\* mutation: only an absent code is rejected (`if code is None`)
code_missing_is_none(code) == code = None

\* `if not code`
code_missing(code) == ~Truthy(code)

\* does POST /sso_callback reach handle_sso_callback / sso_callback ?
callback_forwards(req) == req.json = "object" /\ ~code_missing(req.code)

\* the query parameters of the forwarded callback: `if state: params["state"] = state`
forwarded_state(state) == IF Truthy(state) THEN state ELSE None

\* sso_agent.py
sso_login_endpoint(link) ==
    LET result == handle_sso_login(link)
    IN  RelayResponse(IF ~HasKey(result, "error") THEN 200 ELSE 500, result)

sso_callback_endpoint(jar, req, link) ==
    IF req.json = "none"
    THEN [jar |-> jar, out |-> RelayResponse(400, ErrorBody(<<"invalid JSON body">>))]
    ELSE IF req.json # "object"
    THEN [jar |-> jar, out |-> Unhandled]
    ELSE IF code_missing(req.code)
    THEN [jar |-> jar, out |-> RelayResponse(400, ErrorBody(<<"missing code">>))]
    ELSE LET r == handle_sso_callback(jar, req.code, req.state, link)
         IN  [jar |-> r.jar,
              out |-> IF r.result.json # "object"
                      THEN Unhandled
                      ELSE RelayResponse(
                             IF HasKey(r.result, "status") /\ r.result.obj["status"] = "OK"
                                /\ ~HasKey(r.result, "error")
                             THEN 200 ELSE 500, r.result)]

sso_me_endpoint(link) ==
    LET result == handle_sso_me(link)
    IN  RelayResponse(IF HasKey(result, "user") THEN 200 ELSE 401, result)

sso_logout_endpoint(jar, link) ==
    LET r == handle_sso_logout(jar, link)
    IN  [jar |-> r.jar,
         out |-> IF r.result.json # "object"
                 THEN Unhandled
                 ELSE RelayResponse(
                        IF HasKey(r.result, "status") /\ r.result.obj["status"] = "ok"
                        THEN 200 ELSE 500, r.result)]

\* mcp_sso_server.py
sso_login_http(link) ==
    LET result == sso_login(link)
    IN  RelayResponse(IF ~HasKey(result, "error") THEN 200 ELSE 500, result)

sso_callback_http(jar, req, link) ==
    IF req.json # "object"
    THEN [jar |-> jar, out |-> Unhandled]
    ELSE IF code_missing(req.code)
    THEN [jar |-> jar, out |-> RelayResponse(400, ErrorBody(<<"missing code">>))]
    ELSE LET r == sso_callback(jar, req.code, req.state, link)
         IN  [jar |-> r.jar,
              out |-> IF r.result.json # "object"
                      THEN Unhandled
                      ELSE RelayResponse(
                             IF HasKey(r.result, "status") /\ r.result.obj["status"] = "OK"
                                /\ ~HasKey(r.result, "error")
                             THEN 200 ELSE 500, r.result)]

sso_me_http(link) ==
    LET result == sso_me(link)
    IN  RelayResponse(IF HasKey(result, "user") THEN 200 ELSE 401, result)

sso_logout_http(jar, link) ==
    LET r == sso_logout(jar, link)
    IN  [jar |-> r.jar,
         out |-> IF r.result.json # "object"
                 THEN Unhandled
                 ELSE RelayResponse(
                        IF HasKey(r.result, "status") /\ r.result.obj["status"] = "ok"
                        THEN 200 ELSE 500, r.result)]

\* ------------------------------------------------------------------- state
VARIABLES
    session_states,   \* service_a_backend.session_states (its keys)
    COOKIE_NAME,      \* service_a_backend.COOKIE_NAME, read once from the environment
    variant,          \* which relay program listens on port 8090
    session_cookies,  \* the relay's session_cookies dict
    jar_owner,        \* history: the caller whose relay_callback populated the jar
    consumed,         \* history: nonces validated and not issued again since
    established,      \* history: token of the session the last storing callback set up
    last,             \* the request just handled and everything observable about it
    threads,          \* the backend's worker threads inside auth_callback
    peer,             \* the other relay variant run side by side: its jar and answer
    sessions          \* history of a browser's backend session: tokens issued,
                      \* logouts made, and every (cookies, answer) of a whoami

vars == <<session_states, COOKIE_NAME, variant, session_cookies,
          jar_owner, consumed, established, last, threads, peer, sessions>>

\* ------------------------------------------------------------------ inputs
Codes == {None, "", "c1"}
States == Nonces \cup {None, "bogus"}
\* Cookie headers a client sends to the backend directly
CookieHeaders ==
    {EmptyDict} \cup {[k \in {n} |-> v] : n \in CookieNames, v \in CookieValues}
CallbackRequests ==
    {CallbackRequest("object", c, s) : c \in Codes, s \in States}
      \cup {CallbackRequest("none", None, None), CallbackRequest("array", None, None)}

\* the threads of the pool that runs the backend's `def` handlers, and a
\* thread that is not inside auth_callback
Threads == {"t1", "t2"}
Idle == [pc |-> "idle", code |-> None, state |-> None, valid |-> FALSE, status |-> 0]

\* op: the operation; caller: who asked; json, code, state: the request;
\* sent: the Cookie header of the backend request; link: how the internal
\* call ended; backend: what the backend did; relay: the relay's answer
Observation(op, caller, json, code, state, sent, link, relay) ==
    [op |-> op, caller |-> caller, json |-> json, code |-> code, state |-> state,
     sent |-> sent, link |-> link.kind, backend |-> link.backend, relay |-> relay]

\* the nonces validated and not issued again, after a backend request b
Consumed(b) ==
    (consumed \cup (session_states \ b.session_states)) \ b.session_states

\* no token issued, no logout made, no whoami answered
NoSessions == [issued |-> {}, logouts |-> 0, answers |-> {}]

Init ==
    /\ session_states = {}
    /\ COOKIE_NAME = DefaultCookieName
    /\ variant \in Variants
    /\ session_cookies = EmptyDict
    /\ jar_owner = {}
    /\ consumed = {}
    /\ established = {}
    /\ last = Observation("start", "-", "-", None, None, EmptyDict, NoCall, NoRelay)
    /\ threads = [t \in Threads |-> Idle]
    /\ peer = [jar |-> EmptyDict, out |-> NoRelay]
    /\ sessions = NoSessions

\* ---------------------------------------------- a browser calls the backend
BackendLogin ==
    \E state \in Nonces :
        LET b == auth_login(session_states, state)
        IN  /\ session_states' = b.session_states
            /\ consumed' = Consumed(b)
            /\ last' = Observation("auth_login", "browser", "-", None, None,
                                   EmptyDict, Reply(b), NoRelay)
            /\ UNCHANGED <<sessions, threads, peer, COOKIE_NAME, variant, session_cookies, jar_owner, established>>

BackendCallback ==
    \E code \in Codes, state \in States, result \in ExchangeResults :
        LET b == auth_callback(session_states, COOKIE_NAME, code, state, result)
        IN  /\ session_states' = b.session_states
            /\ consumed' = Consumed(b)
            /\ last' = Observation("auth_callback", "browser", "-", code, state,
                                   EmptyDict, Reply(b), NoRelay)
            /\ UNCHANGED <<sessions, threads, peer, COOKIE_NAME, variant, session_cookies, jar_owner, established>>

BackendMe ==
    \E cookies \in CookieHeaders :
        LET b == Served(session_states, FALSE, NotAsked, auth_me(cookies))
        IN  /\ last' = Observation("auth_me", "browser", "-", None, None,
                                   cookies, Reply(b), NoRelay)
            /\ UNCHANGED <<sessions, threads, peer, session_states, COOKIE_NAME, variant, session_cookies,
                           jar_owner, consumed, established>>

BackendLogout ==
    \E cookies \in {EmptyDict} \cup {[k \in {COOKIE_NAME} |-> v] : v \in ProviderTokens} :
        LET b == Served(session_states, FALSE, NotAsked, auth_logout(COOKIE_NAME))
        IN  /\ last' = Observation("auth_logout", "browser", "-", None, None,
                                   cookies, Reply(b), NoRelay)
            /\ UNCHANGED <<sessions, threads, peer, session_states, COOKIE_NAME, variant, session_cookies,
                           jar_owner, consumed, established>>

BackendHealth ==
    LET b == Served(session_states, FALSE, NotAsked, health)
    IN  /\ last' = Observation("health", "browser", "-", None, None,
                               EmptyDict, Reply(b), NoRelay)
        /\ UNCHANGED <<sessions, threads, peer, session_states, COOKIE_NAME, variant, session_cookies,
                       jar_owner, consumed, established>>

\* ------------------------------------------------- a caller calls the relay
RelayLogin(caller) ==
    \E link \in Calls(session_states,
                      {auth_login(session_states, n) : n \in Nonces}) :
        LET out == IF variant = "sso_agent" THEN sso_login_endpoint(link)
                                            ELSE sso_login_http(link)
        IN  /\ session_states' = link.backend.session_states
            /\ consumed' = Consumed(link.backend)
            /\ last' = Observation("sso_login", caller, "-", None, None, EmptyDict, link, out)
            /\ UNCHANGED <<sessions, threads, peer, COOKIE_NAME, variant, session_cookies, jar_owner, established>>

RelayCallback(caller) ==
    \E req \in CallbackRequests :
      \E link \in IF callback_forwards(req)
                  THEN Calls(session_states,
                             {auth_callback(session_states, COOKIE_NAME, req.code,
                                            forwarded_state(req.state), result) :
                                 result \in ExchangeResults})
                  ELSE {[NoCall EXCEPT !.backend = Unserved(session_states)]} :
        LET r == IF variant = "sso_agent"
                 THEN sso_callback_endpoint(session_cookies, req, link)
                 ELSE sso_callback_http(session_cookies, req, link)
            stored == link.kind = "response" /\ DOMAIN link.resp.cookies # {}
        IN  /\ session_states' = link.backend.session_states
            /\ consumed' = Consumed(link.backend)
            /\ session_cookies' = r.jar
            /\ jar_owner' = IF stored THEN {caller} ELSE jar_owner
            /\ established' =
                 IF stored /\ is_redirect(link.resp)
                    /\ "sso_session" \in DOMAIN link.resp.cookies
                    /\ r.out = RelayResponse(200, JsonObject([k \in {"status"} |-> "OK"]))
                 THEN {link.resp.cookies["sso_session"]}
                 ELSE IF stored THEN {} ELSE established
            /\ last' = Observation("sso_callback", caller, req.json, req.code, req.state,
                                   EmptyDict, link, r.out)
            /\ UNCHANGED <<sessions, threads, peer, COOKIE_NAME, variant>>

RelayMe(caller) ==
    \E link \in Calls(session_states,
                      {Served(session_states, FALSE, NotAsked, auth_me(session_cookies))}) :
        LET out == IF variant = "sso_agent" THEN sso_me_endpoint(link)
                                            ELSE sso_me_http(link)
        IN  /\ last' = Observation("sso_me", caller, "-", None, None, session_cookies, link, out)
            /\ UNCHANGED <<sessions, threads, peer, session_states, COOKIE_NAME, variant, session_cookies,
                           jar_owner, consumed, established>>

RelayLogout(caller) ==
    \E link \in Calls(session_states,
                      {Served(session_states, FALSE, NotAsked, auth_logout(COOKIE_NAME))}) :
        LET r == IF variant = "sso_agent"
                 THEN sso_logout_endpoint(session_cookies, link)
                 ELSE sso_logout_http(session_cookies, link)
        IN  /\ session_cookies' = r.jar
            /\ jar_owner' = IF r.jar = EmptyDict THEN {} ELSE jar_owner
            /\ established' = {}
            /\ last' = Observation("sso_logout", caller, "-", None, None,
                                   session_cookies, link, r.out)
            /\ UNCHANGED <<sessions, threads, peer, session_states, COOKIE_NAME, variant, consumed>>

Next ==
    \/ BackendLogin
    \/ BackendCallback
    \/ BackendMe
    \/ BackendLogout
    \/ BackendHealth
    \/ \E caller \in Callers : RelayLogin(caller)
    \/ \E caller \in Callers : RelayCallback(caller)
    \/ \E caller \in Callers : RelayMe(caller)
    \/ \E caller \in Callers : RelayLogout(caller)

Spec == Init /\ [][Next]_vars

\* ------------------------------------------- whoami over every claim set
\* the claims auth_me looks at, and tokens with every subset of them
ClaimNames == {"sub", "oid", "email", "preferred_username", "upn", "name"}
ClaimValue(c) ==
    CASE c = "sub" -> "v-sub" [] c = "oid" -> "v-oid" [] c = "email" -> "v-email"
      [] c = "preferred_username" -> "v-preferred_username"
      [] c = "upn" -> "v-upn" [] OTHER -> "v-name"
AllClaims == {[c \in D |-> ClaimValue(c)] : D \in SUBSET ClaimNames}

\* GET /auth/me with a token carrying any subset of the claims
ProjectIdentity ==
    \E claims \in AllClaims :
        LET cookies == [k \in {MeCookieParam} |-> Jwt(claims)]
            b == Served(session_states, FALSE, NotAsked, auth_me(cookies))
        IN  /\ last' = Observation("auth_me", "browser", "-", None, None,
                                   cookies, Reply(b), NoRelay)
            /\ UNCHANGED <<sessions, threads, peer, session_states, COOKIE_NAME, variant,
                           session_cookies, jar_owner, consumed, established>>

NextProjection == ProjectIdentity

SpecProjection == Init /\ [][NextProjection]_vars

\* --------------------------------- the backend under a configured cookie name
\* COOKIE_NAME = os.getenv("COOKIE_NAME", "sso_session"): any name the
\* deployment configures; browsers call the backend directly
InitConfig ==
    /\ session_states = {}
    /\ COOKIE_NAME \in CookieNames
    /\ variant \in Variants
    /\ session_cookies = EmptyDict
    /\ jar_owner = {}
    /\ consumed = {}
    /\ established = {}
    /\ last = Observation("start", "-", "-", None, None, EmptyDict, NoCall, NoRelay)
    /\ threads = [t \in Threads |-> Idle]
    /\ peer = [jar |-> EmptyDict, out |-> NoRelay]
    /\ sessions = NoSessions

NextConfig ==
    \/ BackendLogin
    \/ BackendCallback
    \/ BackendMe
    \/ BackendLogout
    \/ BackendHealth

SpecConfig == InitConfig /\ [][NextConfig]_vars

\* ------------------------------------- the two relay variants side by side
\* Both relays get the same request and the same outcome of the internal
\* call: session_cookies and last.relay are sso_agent's jar and answer,
\* peer.jar and peer.out are mcp_sso_server's.  When the backend itself
\* answers a whoami, it answers each relay for the jar that relay sent.
PairLogin ==
    \E link \in Calls(session_states,
                      {auth_login(session_states, n) : n \in Nonces}) :
        /\ session_states' = link.backend.session_states
        /\ consumed' = Consumed(link.backend)
        /\ last' = Observation("sso_login", "A", "-", None, None, EmptyDict, link,
                               sso_login_endpoint(link))
        /\ peer' = [jar |-> peer.jar, out |-> sso_login_http(link)]
        /\ UNCHANGED <<sessions, threads, COOKIE_NAME, variant, session_cookies, jar_owner, established>>

PairCallback ==
    \E req \in CallbackRequests :
      \E link \in IF callback_forwards(req)
                  THEN Calls(session_states,
                             {auth_callback(session_states, COOKIE_NAME, req.code,
                                            forwarded_state(req.state), result) :
                                 result \in ExchangeResults})
                  ELSE {[NoCall EXCEPT !.backend = Unserved(session_states)]} :
        LET r == sso_callback_endpoint(session_cookies, req, link)
            q == sso_callback_http(peer.jar, req, link)
        IN  /\ session_states' = link.backend.session_states
            /\ consumed' = Consumed(link.backend)
            /\ session_cookies' = r.jar
            /\ last' = Observation("sso_callback", "A", req.json, req.code, req.state,
                                   EmptyDict, link, r.out)
            /\ peer' = [jar |-> q.jar, out |-> q.out]
            /\ UNCHANGED <<sessions, threads, COOKIE_NAME, variant, jar_owner, established>>

PairMe ==
    \E link \in Calls(session_states,
                      {Served(session_states, FALSE, NotAsked, auth_me(session_cookies))}) :
        LET plink == IF link.backend.served
                     THEN Reply(Served(session_states, FALSE, NotAsked, auth_me(peer.jar)))
                     ELSE link
        IN  /\ last' = Observation("sso_me", "A", "-", None, None, session_cookies, link,
                                   sso_me_endpoint(link))
            /\ peer' = [jar |-> peer.jar, out |-> sso_me_http(plink)]
            /\ UNCHANGED <<sessions, threads, session_states, COOKIE_NAME, variant, session_cookies,
                           jar_owner, consumed, established>>

PairLogout ==
    \E link \in Calls(session_states,
                      {Served(session_states, FALSE, NotAsked, auth_logout(COOKIE_NAME))}) :
        LET r == sso_logout_endpoint(session_cookies, link)
            q == sso_logout_http(peer.jar, link)
        IN  /\ session_cookies' = r.jar
            /\ last' = Observation("sso_logout", "A", "-", None, None,
                                   session_cookies, link, r.out)
            /\ peer' = [jar |-> q.jar, out |-> q.out]
            /\ UNCHANGED <<sessions, threads, session_states, COOKIE_NAME, variant, jar_owner,
                           consumed, established>>

NextPair ==
    \/ PairLogin
    \/ PairCallback
    \/ PairMe
    \/ PairLogout

SpecPair == Init /\ [][NextPair]_vars

\* ------------------------------------ a browser's session at the backend
\* A browser logs in, completes callbacks, logs out and asks whoami with the
\* cookie value it chooses to present: an undecodable value or a token a
\* callback has issued (a client may keep a cookie the logout expired).
SessionLogin ==
    \E state \in Nonces :
        LET b == auth_login(session_states, state)
        IN  /\ session_states' = b.session_states
            /\ consumed' = Consumed(b)
            /\ last' = Observation("auth_login", "browser", "-", None, None,
                                   EmptyDict, Reply(b), NoRelay)
            /\ UNCHANGED <<sessions, threads, peer, COOKIE_NAME, variant,
                           session_cookies, jar_owner, established>>

SessionCallback ==
    \E code \in Codes, state \in States, result \in ExchangeResults :
        LET b == auth_callback(session_states, COOKIE_NAME, code, state, result)
        IN  /\ session_states' = b.session_states
            /\ consumed' = Consumed(b)
            /\ sessions' = [sessions EXCEPT !.issued =
                              @ \cup {b.resp.cookies[n] : n \in DOMAIN b.resp.cookies}]
            /\ last' = Observation("auth_callback", "browser", "-", code, state,
                                   EmptyDict, Reply(b), NoRelay)
            /\ UNCHANGED <<threads, peer, COOKIE_NAME, variant, session_cookies,
                           jar_owner, established>>

SessionLogout ==
    /\ sessions.logouts < MaxLogouts
    /\ LET b == Served(session_states, FALSE, NotAsked, auth_logout(COOKIE_NAME))
       IN  last' = Observation("auth_logout", "browser", "-", None, None,
                               EmptyDict, Reply(b), NoRelay)
    /\ sessions' = [sessions EXCEPT !.logouts = @ + 1]
    /\ UNCHANGED <<threads, peer, session_states, COOKIE_NAME, variant, session_cookies,
                   jar_owner, consumed, established>>

\* mutation: the backend answers unauthenticated once a logout has been made
SessionMeRevoked ==
    \E value \in sessions.issued \cup {<<"garbage">>} :
        LET cookies == [k \in {MeCookieParam} |-> value]
            b == Served(session_states, FALSE, NotAsked,
                        IF sessions.logouts > 0 THEN auth_me(EmptyDict)
                                                ELSE auth_me(cookies))
        IN  /\ last' = Observation("auth_me", "browser", "-", None, None,
                                   cookies, Reply(b), NoRelay)
            /\ sessions' = [sessions EXCEPT !.answers = @ \cup {<<cookies, b.resp>>}]
            /\ UNCHANGED <<threads, peer, session_states, COOKIE_NAME, variant,
                           session_cookies, jar_owner, consumed, established>>

SessionMe ==
    \E value \in sessions.issued \cup {<<"garbage">>} :
        LET cookies == [k \in {MeCookieParam} |-> value]
            b == Served(session_states, FALSE, NotAsked, auth_me(cookies))
        IN  /\ last' = Observation("auth_me", "browser", "-", None, None,
                                   cookies, Reply(b), NoRelay)
            /\ sessions' = [sessions EXCEPT !.answers = @ \cup {<<cookies, b.resp>>}]
            /\ UNCHANGED <<threads, peer, session_states, COOKIE_NAME, variant,
                           session_cookies, jar_owner, consumed, established>>

NextSession ==
    \/ SessionLogin
    \/ SessionCallback
    \/ SessionLogout
    \/ SessionMe

SpecSession == Init /\ [][NextSession]_vars

\* ------------------------------- auth_callback on the worker-thread pool
\* auth_login and auth_callback are `def` handlers: FastAPI runs each request
\* on a pool thread, and nothing orders the statements of two requests.
\* A thread's record: where it is in auth_callback, its parameters, whether
\* its state check passed, and the status it answered with.
AtStep(t, pc) == threads[t].pc = pc
Goto(t, pc) == [threads EXCEPT ![t].pc = pc]

\* auth_login on a pool thread: `session_states[state] = True` with a value
\* of secrets.token_urlsafe(32) that was never issued before
ThreadLogin ==
    \E state \in Nonces \ (session_states \cup consumed) :
        /\ session_states' = session_states \cup {state}
        /\ UNCHANGED <<sessions, threads, peer, COOKIE_NAME, variant, session_cookies,
                       jar_owner, consumed, established, last>>

\* a request enters auth_callback: `if not code: raise HTTPException(400)`
ThreadEnter(t) ==
    /\ AtStep(t, "idle")
    /\ \E code \in Codes, state \in States :
          threads' = [threads EXCEPT ![t] =
                        IF ~Truthy(code)
                        THEN [pc |-> "done", code |-> code, state |-> state,
                              valid |-> FALSE, status |-> 400]
                        ELSE [pc |-> "check", code |-> code, state |-> state,
                              valid |-> FALSE, status |-> 0]]
    /\ UNCHANGED <<sessions, peer, session_states, COOKIE_NAME, variant, session_cookies,
                   jar_owner, consumed, established, last>>

\* `if state and state in session_states:`
ThreadCheck(t) ==
    /\ AtStep(t, "check")
    /\ threads' = Goto(t, IF state_valid(session_states, threads[t].state)
                          THEN "pop" ELSE "exchange")
    /\ UNCHANGED <<sessions, peer, session_states, COOKIE_NAME, variant, session_cookies,
                   jar_owner, consumed, established, last>>

\* `session_states.pop(state)`: dict.pop of a key that is gone raises
\* KeyError, which nothing catches (the request ends in a 500)
ThreadPop(t) ==
    /\ AtStep(t, "pop")
    /\ IF threads[t].state \in session_states
       THEN /\ session_states' = session_states \ {threads[t].state}
            /\ consumed' = consumed \cup {threads[t].state}
            /\ threads' = [threads EXCEPT ![t].pc = "exchange", ![t].valid = TRUE]
       ELSE /\ threads' = [threads EXCEPT ![t].pc = "fault", ![t].status = 500]
            /\ UNCHANGED <<session_states, consumed>>
    /\ UNCHANGED <<sessions, peer, COOKIE_NAME, variant, session_cookies,
                   jar_owner, established, last>>

\* acquire_token_by_authorization_code and the response
ThreadExchange(t) ==
    /\ AtStep(t, "exchange")
    /\ \E result \in ExchangeResults :
          threads' = [threads EXCEPT ![t].pc = "done",
                        ![t].status = IF "id_token" \in DOMAIN result THEN 307 ELSE 401]
    /\ UNCHANGED <<sessions, peer, session_states, COOKIE_NAME, variant, session_cookies,
                   jar_owner, consumed, established, last>>

\* the response is sent and the thread goes back to the pool
ThreadReturn(t) ==
    /\ threads[t].pc \in {"done", "fault"}
    /\ threads' = [threads EXCEPT ![t] = Idle]
    /\ UNCHANGED <<sessions, peer, session_states, COOKIE_NAME, variant, session_cookies,
                   jar_owner, consumed, established, last>>

NextConcurrent ==
    \/ ThreadLogin
    \/ \E t \in Threads : ThreadEnter(t)
    \/ \E t \in Threads : ThreadCheck(t)
    \/ \E t \in Threads : ThreadPop(t)
    \/ \E t \in Threads : ThreadExchange(t)
    \/ \E t \in Threads : ThreadReturn(t)

SpecConcurrent == Init /\ [][NextConcurrent]_vars

TypeOK ==
    /\ session_states \subseteq Nonces
    /\ consumed \subseteq Nonces
    /\ DOMAIN session_cookies \subseteq CookieNames

\* ================================================================== claims
\* the backend handled a callback in the step that produced observation o
\* (asked directly by a browser, or forwarded by the relay)
CallbackServed(o) == o.op \in {"auth_callback", "sso_callback"} /\ o.backend.served
\* the state parameter that callback carried ("" and absent are both None)
PresentedState(o) == forwarded_state(o.state)

\* C1: a callback whose code the provider accepts and whose state is pending
\* answers with a redirect to /post-login, removes the state from the pending
\* set, and sets the session cookie to exactly the identity token of the
\* exchange.
C1_Theorem ==
    [][ ( /\ CallbackServed(last')
          /\ Truthy(last'.code)
          /\ "id_token" \in DOMAIN last'.backend.provider
          /\ PresentedState(last') \in session_states )
        => ( /\ is_redirect(last'.backend.resp)
             /\ last'.backend.resp.location = <<"/post-login">>
             /\ PresentedState(last') \notin session_states'
             /\ last'.backend.resp.cookies =
                  [k \in {COOKIE_NAME} |-> last'.backend.provider.id_token] ) ]_vars

C1_Witness ==
    /\ last.op = "auth_callback"
    /\ last.backend.validated
    /\ "id_token" \in DOMAIN last.backend.provider
    /\ is_redirect(last.backend.resp)
    /\ session_states # {}

\* C2: once a callback has validated a state S, every later callback that
\* presents S takes the unvalidated branch, until a login issues S again;
\* a validated state is never pending.
C2_Theorem ==
    [][ /\ ( CallbackServed(last') /\ Truthy(last'.code)
             /\ PresentedState(last') \in consumed )
           => ~last'.backend.validated
        /\ consumed' \cap session_states' = {} ]_vars

C2_Witness ==
    /\ last.op = "auth_callback"
    /\ Truthy(last.code)
    /\ last.state \in consumed
    /\ ~last.backend.validated
    /\ "id_token" \in DOMAIN last.backend.provider

\* C3: a relay_whoami or relay_logout issued by one caller never sends the
\* backend a cookie jar that another caller's relay_callback populated.
C3_CallerIsolation ==
    [][ last'.op \in {"sso_me", "sso_logout"} => jar_owner \subseteq {last'.caller} ]_vars

\* C4: after relay_logout returns, the relay's jar is empty, whatever the
\* backend call did (either relay variant).
C4_LogoutClearsJar ==
    last.op = "sso_logout" => session_cookies = EmptyDict

\* C5: when the backend answers the forwarded callback with a redirect the
\* relay returns {status: "OK"} and the jar becomes exactly the cookies of
\* that response (also when it carries none); a non-redirect answer does not
\* replace the jar.
C5_WholesaleReplace ==
    [][ (last'.op = "sso_callback" /\ last'.link = "response")
        => IF is_redirect(last'.backend.resp)
           THEN /\ last'.relay = RelayResponse(200, JsonObject([k \in {"status"} |-> "OK"]))
                /\ session_cookies' = last'.backend.resp.cookies
           ELSE session_cookies' = session_cookies ]_vars

\* C6: a relay_callback in which the backend set sso_session=T and redirected
\* makes the relay return {status: "OK"}; from then until the next
\* relay_callback that stores cookies or the next relay_logout, every
\* relay_whoami sends sso_session=T, and a backend that receives it answers
\* 200 with the identity projected from T.
C6_Theorem ==
    [][ /\ ( /\ last'.op = "sso_callback" /\ last'.link = "response"
             /\ is_redirect(last'.backend.resp)
             /\ "sso_session" \in DOMAIN last'.backend.resp.cookies )
           => ( /\ last'.relay = RelayResponse(200, JsonObject([k \in {"status"} |-> "OK"]))
                /\ established' = {last'.backend.resp.cookies["sso_session"]} )
        /\ ( last'.op = "sso_me" /\ established # {} )
           => \A T \in established :
                /\ "sso_session" \in DOMAIN last'.sent
                /\ last'.sent["sso_session"] = T
                /\ last'.backend.served
                     => last'.backend.resp =
                          JSONResponse(200, [k \in {"user"} |-> user_info(jwt_decode(T))])
      ]_vars

C6_Witness ==
    /\ last.op = "sso_me"
    /\ established = {Jwt(ClaimsFallback)}
    /\ last.backend.served
    /\ last.relay.status = 200
    /\ last.relay.body.obj["user"]["email"] = "u2@upn"

\* C7: POST /sso_callback whose JSON body has no code, or an empty one,
\* answers 400 {error: "missing code"}, makes no backend call and leaves the
\* jar (and the backend) as they were, in either relay variant.
C7_Theorem ==
    [][ ( last'.op = "sso_callback" /\ last'.json = "object" /\ last'.code \in {None, ""} )
        => ( /\ last'.relay = RelayResponse(400, ErrorBody(<<"missing code">>))
             /\ last'.link = "NoCall"
             /\ ~last'.backend.served
             /\ session_cookies' = session_cookies
             /\ session_states' = session_states ) ]_vars

C7_Witness ==
    /\ last.op = "sso_callback"
    /\ last.json = "object"
    /\ last.code = ""
    /\ last.state \in session_states
    /\ last.relay.status = 400
    /\ session_cookies # EmptyDict

\* C8: with the backend unreachable, /sso_login, /sso_me and /sso_callback
\* (with a code) each answer 500 with an error that starts with
\* "connection_error".
C8_Unreachable500 ==
    ( last.op \in {"sso_login", "sso_me", "sso_callback"} /\ last.link = "ConnectError" )
    => ( /\ last.relay.status = 500
         /\ HasKey(last.relay.body, "error")
         /\ Head(last.relay.body.obj["error"]) = "connection_error: " )

\* the backend answered a whoami in the step that produced observation o
MeServed(o) == o.op \in {"auth_me", "sso_me"} /\ o.backend.served
Unauthenticated == JSONResponse(401, [k \in {"error"} |-> Str("unauthenticated")])
InvalidToken == JSONResponse(401, [k \in {"error"} |-> Str("invalid_token")])

\* C9 (as stated): no session cookie -> 401 unauthenticated; a session cookie
\* whose value is not a decodable token -> 401 invalid_token; 200 {user} only
\* for a decodable token.
C9_Original ==
    MeServed(last)
    => /\ "sso_session" \notin DOMAIN last.sent => last.backend.resp = Unauthenticated
       /\ ( "sso_session" \in DOMAIN last.sent
            /\ ~jwt_decodable(last.sent["sso_session"]) )
          => last.backend.resp = InvalidToken
       /\ last.backend.resp.status = 200
          => ( /\ "sso_session" \in DOMAIN last.sent
               /\ jwt_decodable(last.sent["sso_session"])
               /\ HasKey(last.backend.resp.body, "user") )

\* C9 (amended): no session cookie, or one whose value is empty -> 401
\* unauthenticated; a non-empty value that is not a decodable token -> 401
\* invalid_token; 200 {user} only for a decodable token.
C9_Theorem ==
    MeServed(last)
    => /\ ( "sso_session" \notin DOMAIN last.sent \/ last.sent["sso_session"] = <<>> )
          => last.backend.resp = Unauthenticated
       /\ ( "sso_session" \in DOMAIN last.sent
            /\ last.sent["sso_session"] # <<>>
            /\ ~jwt_decodable(last.sent["sso_session"]) )
          => last.backend.resp = InvalidToken
       /\ last.backend.resp.status = 200
          => ( /\ "sso_session" \in DOMAIN last.sent
               /\ jwt_decodable(last.sent["sso_session"])
               /\ HasKey(last.backend.resp.body, "user") )

C9_Witness ==
    /\ last.op = "auth_me"
    /\ "sso_session" \in DOMAIN last.sent
    /\ last.sent["sso_session"] = <<>>
    /\ last.backend.resp = Unauthenticated

\* C10: backend logout answers 200 {status: "ok"} and expires the session
\* cookie for every request, with or without a session, before any login and
\* however often it is repeated, and never changes the pending set.
C10_Theorem ==
    [][ ( last'.op \in {"auth_logout", "sso_logout"} /\ last'.backend.served )
        => ( /\ last'.backend.resp.status = 200
             /\ last'.backend.resp.body = JsonObject([k \in {"status"} |-> "ok"])
             /\ last'.backend.resp.expired = {COOKIE_NAME}
             /\ last'.backend.resp.cookies = EmptyDict
             /\ session_states' = session_states ) ]_vars

C10_Witness ==
    /\ last.op = "auth_logout"
    /\ last.sent = EmptyDict
    /\ session_states # {}
    /\ last.backend.resp.expired = {COOKIE_NAME}

\* C11: a backend callback without a code (absent or empty) fails with 400
\* before anything else happens: the pending set is unchanged even when the
\* state it carries is pending, the provider is not asked, and no cookie is
\* set.
C11_Theorem ==
    [][ ( last'.op = "auth_callback" /\ last'.backend.served /\ ~Truthy(last'.code) )
        => ( /\ last'.backend.resp = HTTPException(400, "Missing code")
             /\ session_states' = session_states
             /\ ~last'.backend.validated
             /\ last'.backend.provider = NotAsked
             /\ last'.backend.resp.cookies = EmptyDict ) ]_vars

C11_Witness ==
    /\ last.op = "auth_callback"
    /\ last.code = None
    /\ last.state \in session_states
    /\ last.backend.resp.status = 400

\* C12: a backend callback whose exchange returns no identity token fails
\* with 401, sets no session cookie and does not redirect.
C12_Theorem ==
    ( CallbackServed(last) /\ Truthy(last.code)
      /\ "id_token" \notin DOMAIN last.backend.provider )
    => ( /\ last.backend.resp.status = 401
         /\ last.backend.resp.body = JsonObject([k \in {"detail"} |-> "Failed to authenticate"])
         /\ last.backend.resp.cookies = EmptyDict
         /\ ~is_redirect(last.backend.resp)
         /\ last.backend.resp.location = <<>> )

C12_Witness ==
    /\ last.op = "auth_callback"
    /\ Truthy(last.code)
    /\ last.backend.provider = [error |-> "invalid_grant"]
    /\ last.backend.resp.status = 401

\* C13: a backend callback with a code whose state is absent or not pending
\* is not rejected: the provider is asked, the answer is the one a callback
\* with a pending state and the same exchange result gets (cookie and
\* redirect, or 401), and the pending set is unchanged.
C13_Theorem ==
    [][ ( CallbackServed(last') /\ Truthy(last'.code)
          /\ PresentedState(last') \notin session_states )
        => ( /\ ~last'.backend.validated
             /\ last'.backend.provider \in ExchangeResults
             /\ last'.backend.resp.status \in {307, 401}
             /\ last'.backend.resp.status = 307
                  <=> "id_token" \in DOMAIN last'.backend.provider
             /\ \A n \in Nonces :
                  last'.backend.resp =
                    auth_callback(session_states \cup {n}, COOKIE_NAME, last'.code, n,
                                  last'.backend.provider).resp
             /\ session_states' = session_states ) ]_vars

C13_Witness ==
    /\ last.op = "auth_callback"
    /\ last.state = "bogus"
    /\ "id_token" \in DOMAIN last.backend.provider
    /\ is_redirect(last.backend.resp)
    /\ DOMAIN last.backend.resp.cookies = {COOKIE_NAME}
    /\ session_states # {}

\* C14: when the backend answers /auth/login with a redirect to U the relay
\* returns exactly {auth_url: U} (status 200) and leaves its jar unchanged;
\* the state carried by the backend's U is pending at that point.
C14_Theorem ==
    [][ ( last'.op = "sso_login" /\ last'.link = "response"
          /\ is_redirect(last'.backend.resp) )
        => ( /\ last'.relay =
                  RelayResponse(200, JsonObject([k \in {"auth_url"} |->
                                                    last'.backend.resp.location]))
             /\ session_cookies' = session_cookies
             /\ last'.backend.served
                  => \E S \in Nonces :
                       /\ last'.backend.resp.location = get_authorization_request_url(S)
                       /\ S \in session_states' ) ]_vars

C14_Witness ==
    /\ last.op = "sso_login"
    /\ last.backend.served
    /\ HasKey(last.relay.body, "auth_url")
    /\ last.relay.body.obj["auth_url"][2] \in session_states
    /\ session_cookies # EmptyDict

\* C15: every relay endpoint, in either variant, for every request and every
\* outcome of the internal call, completes with a JSON object response and
\* never lets an exception escape.
C15_NoUnhandledFault ==
    last.op \in {"sso_login", "sso_callback", "sso_me", "sso_logout"}
    => ( ~last.relay.raised /\ last.relay.body.json = "object" )

\* the claims of the token a served whoami decoded, and the user it returned
DecodedClaims(o) == jwt_decode(o.sent["sso_session"])
ReturnedUser(o) == o.backend.resp.body.obj["user"]
\* the fallback order of the projection, written out
Subject(d) == IF "sub" \in DOMAIN d THEN d["sub"]
              ELSE IF "oid" \in DOMAIN d THEN d["oid"] ELSE None
Email(d) == IF "email" \in DOMAIN d THEN d["email"]
            ELSE IF "preferred_username" \in DOMAIN d THEN d["preferred_username"]
            ELSE IF "upn" \in DOMAIN d THEN d["upn"] ELSE None
DisplayName(d) == IF "name" \in DOMAIN d THEN d["name"] ELSE "Unknown User"
TokenPresented(o) ==
    /\ MeServed(o)
    /\ "sso_session" \in DOMAIN o.sent
    /\ jwt_decodable(o.sent["sso_session"])

C17_ConcurrentSafe ==
    /\ \A t \in Threads : threads[t].pc # "fault"
    /\ \A t, u \in Threads :
         ( /\ t # u
           /\ threads[t].state = threads[u].state
           /\ threads[t].pc \in {"exchange", "done"}
           /\ threads[u].pc \in {"exchange", "done"} )
         => ~(threads[t].valid /\ threads[u].valid)

\* the backend handled a login in the step that produced observation o
LoginServed(o) == o.op \in {"auth_login", "sso_login"} /\ o.backend.served

\* C18: the pending set starts empty; a backend login adds exactly the nonce
\* it puts in its redirect; a callback with a code removes exactly the state
\* it presents (if pending) and nothing else; every other operation (a
\* callback without a code, whoami, logout, health, a relay call that did not
\* reach the backend) leaves the set as it was, so a nonce that is never
\* presented stays pending.
C18_Theorem ==
    /\ session_states = {}
    /\ [][ LET o == last'
           IN  /\ LoginServed(o)
                   => \E S \in Nonces :
                        /\ o.backend.resp.location = get_authorization_request_url(S)
                        /\ session_states' = session_states \cup {S}
               /\ CallbackServed(o)
                   => session_states' =
                        session_states \ (IF Truthy(o.code) THEN {PresentedState(o)} ELSE {})
               /\ ~(LoginServed(o) \/ CallbackServed(o))
                   => session_states' = session_states
               /\ \A n \in session_states :
                    ~(CallbackServed(o) /\ Truthy(o.code) /\ PresentedState(o) = n)
                      => n \in session_states' ]_vars

C18_Witness ==
    /\ last.op = "health"
    /\ session_states = Nonces
    /\ consumed = {}

\* the backend answered observation o's callback with the session established
SessionSet(o) == CallbackServed(o) /\ is_redirect(o.backend.resp)

\* C19: under every configured cookie name, callback sets the cookie of that
\* name, logout expires the cookie of that name, and a whoami that presents
\* exactly the cookie a successful callback has just set answers 200 with the
\* identity of that token.
C19_CookieNameConsistent ==
    [][ /\ SessionSet(last')
           => DOMAIN last'.backend.resp.cookies = {COOKIE_NAME}
        /\ (last'.op = "auth_logout")
           => last'.backend.resp.expired = {COOKIE_NAME}
        /\ ( /\ SessionSet(last)
             /\ last'.op = "auth_me"
             /\ last'.sent = last.backend.resp.cookies )
           => last'.backend.resp =
                JSONResponse(200,
                   [k \in {"user"} |->
                      user_info(jwt_decode(last.backend.provider.id_token))]) ]_vars

\* how a relay answer classifies: a fault that escaped the endpoint, an
\* error object, or a success
Classification(out) ==
    IF out.raised THEN "fault"
    ELSE IF HasKey(out.body, "error") THEN "error" ELSE "success"

\* C20: run side by side on the same requests and the same backend outcomes,
\* sso_agent and mcp_sso_server end every step with equal cookie jars and
\* answer with the same HTTP status and the same success/error
\* classification.
C20_VariantsEquivalent ==
    /\ peer.jar = session_cookies
    /\ last.op \in {"sso_login", "sso_callback", "sso_me", "sso_logout"}
         => /\ peer.out.status = last.relay.status
            /\ Classification(peer.out) = Classification(last.relay)

\* the backend validated observation o's state and the exchange then failed
ExchangeFailedAfterValidation(o) ==
    /\ CallbackServed(o)
    /\ Truthy(o.code)
    /\ o.backend.validated
    /\ "id_token" \notin DOMAIN o.backend.provider

\* C21: a callback that presents a pending state and whose exchange fails
\* answers 401 having already removed the state from the pending set; a
\* callback that presents the same state right after it takes the
\* unvalidated branch.
C21_Theorem ==
    [][ /\ ( /\ CallbackServed(last')
             /\ Truthy(last'.code)
             /\ PresentedState(last') \in session_states
             /\ "id_token" \notin DOMAIN last'.backend.provider )
           => ( /\ last'.backend.validated
                /\ last'.backend.resp.status = 401
                /\ last'.backend.resp.cookies = EmptyDict
                /\ PresentedState(last') \notin session_states'
                /\ session_states' = session_states \ {PresentedState(last')} )
        /\ ( /\ ExchangeFailedAfterValidation(last)
             /\ CallbackServed(last')
             /\ Truthy(last'.code)
             /\ PresentedState(last') = PresentedState(last) )
           => ~last'.backend.validated ]_vars

C21_Witness ==
    /\ ExchangeFailedAfterValidation(last)
    /\ last.backend.resp.status = 401
    /\ PresentedState(last) \in consumed
    /\ PresentedState(last) \notin session_states

\* observation o is a relay_callback whose backend response carries cookies
CarriesCookies(o) ==
    /\ o.op = "sso_callback"
    /\ o.link = "response"
    /\ DOMAIN o.backend.resp.cookies # {}

\* C22: the relay's jar changes only in a relay_callback whose backend
\* response carries cookies and in relay_logout; relay_login, relay_whoami,
\* a relay_callback rejected for a missing code and a relay_callback that
\* fails without cookies (backend 400/401, gateway answer, backend
\* unreachable) leave it as it was, and relay_whoami sends the backend the
\* jar as it stands, which the backend answers for.
C22_Theorem ==
    [][ LET o == last'
        IN  /\ session_cookies' # session_cookies
                => (o.op = "sso_logout" \/ CarriesCookies(o))
            /\ (o.op \in {"sso_login", "sso_me"})
                => session_cookies' = session_cookies
            /\ (o.op = "sso_callback" /\ ~CarriesCookies(o))
                => session_cookies' = session_cookies
            /\ (o.op = "sso_me")
                => /\ o.sent = session_cookies
                   /\ o.backend.served
                        => o.backend.resp = auth_me(session_cookies) ]_vars

C22_Witness ==
    /\ last.op = "sso_callback"
    /\ last.backend.served
    /\ last.backend.resp.status = 401
    /\ ~CarriesCookies(last)
    /\ session_cookies # EmptyDict
    /\ established # {}

\* the answer whoami owes a decodable token: 200 with its identity
Identity(token) == JSONResponse(200, [k \in {"user"} |-> user_info(jwt_decode(token))])

\* C23: whoami's answer is a function of the cookies presented alone: the
\* same cookies always get the same answer, whatever the pending set holds
\* and whatever was done before; and a token a callback has issued is
\* answered 200 with its identity every time it is presented, after any
\* number of logouts.
C23_Theorem ==
    /\ \A p, q \in sessions.answers : p[1] = q[1] => p[2] = q[2]
    /\ \A p \in sessions.answers :
         p[1][MeCookieParam] \in sessions.issued
           => p[2] = Identity(p[1][MeCookieParam])
    /\ ( /\ last.op = "auth_me"
         /\ last.sent[MeCookieParam] \in sessions.issued )
       => last.backend.resp = Identity(last.sent[MeCookieParam])

C23_Witness ==
    /\ last.op = "auth_me"
    /\ last.sent[MeCookieParam] \in sessions.issued
    /\ sessions.logouts = MaxLogouts
    /\ session_states # {}
    /\ last.backend.resp.status = 200
    /\ Cardinality(sessions.answers) > 1
====
